---- MODULE Spec2Model ----
(***************************************************************************)
(* The keyed client cache of src/main.rs: AZ_STORAGE_BACKEND_CACHE, a      *)
(* process-wide tokio Mutex around a HashMap from storage account to       *)
(* Arc<RwLock<DataLakeClient>>, AzureStorageBackend::new which looks a     *)
(* client up or builds and inserts it under that mutex, and the test       *)
(* functions, each of which obtains a backend and then creates and deletes *)
(* a container and a file of its own through read guards on the client.    *)
(* Every test function is one task; the tasks run concurrently in one      *)
(* process and share the cache.                                            *)
(***************************************************************************)
EXTENDS Naturals, Sequences, FiniteSets

\* Number of concurrently running test functions (test_1 .. test_10 in the source).
NumTasks == 2
\* Number of distinct storage accounts a caller may pass to new.
NumKeys == 2

\* Number of clones of its backend a caller may hold at a time.
MaxClones == 1

Tasks == 1..NumTasks
Keys == 1..NumKeys

\* Option::None of an Arc<RwLock<DataLakeClient>> (cache miss, no handle).
NoClient == 0
\* The tokio Mutex / RwLock held by nobody.
NoTask == 0
\* A task that has not yet chosen its storage account.
NoKey == 0

\* The four operation helpers, in the order every test calls them.
Ops == <<"create_container", "create_file", "delete_file", "delete_container">>

VARIABLES
    pc,               \* position of each task in new / in its test function
    op,               \* index in Ops of the helper the task is in (0: none yet)
    account,          \* storage_account_url of the task's call to new
    mutex_owner,      \* holder of the cache mutex's guard (cache_guard)
    waiters,          \* tasks queued on the cache mutex, in arrival order
    cache,            \* the HashMap: account -> client instance
    clients,          \* every DataLakeClient constructed: clients[i] is its account
    credentials,      \* every credential built: the account of the building call
    data_lake_client, \* the Arc the block of lines 36-56 evaluates to, per task
    backend,          \* the live AzureStorageBackend of the task (its client)
    returned,         \* the client of the handle new returned to the task
    result,           \* the Result of the task's call to new: "none", "Ok", "Err"
    work,             \* credential + factory invocations made by the task's call
    warm,             \* whether a call for the same account had returned when the task's call began
    first,            \* per account, the client of the first handle new returned
    readers,          \* per client, the tasks holding a read guard of its RwLock
    writer,           \* per client, the task holding the write guard of its RwLock
    containers,       \* file systems existing in the remote service: <<account, name>>
    files,            \* files existing in the remote service: <<account, container, name>>
    failed_op,        \* the helper whose request failed in the task (0: none)
    credential_ok,    \* whether the environment yields a token when one is requested
    once,             \* state of the lazy_static's Once: "incomplete", "running", "complete"
    inits,            \* how many times the initialiser of the lazy_static has run
    first_locker,     \* per account, the first task that acquired the cache mutex for it
    strong,           \* per client, the strong count of its Arc (0: no Arc yet)
    clones            \* per task, the clients of the clones of its backend it holds

vars == <<pc, op, account, mutex_owner, waiters, cache, clients, credentials,
          data_lake_client, backend, returned, result, work, warm, first,
          readers, writer, containers, files, failed_op, credential_ok,
          once, inits, first_locker, strong, clones>>

ClientIds == 1..NumTasks

(***************************************************************************)
(* Pure pieces of AzureStorageBackend::new.                                *)
(***************************************************************************)

\* Faulty variants of the mutex: one that lets every caller in, one that
\* looks at the queue but not at the holder.
MutexAvailable_NotExclusive(owner, queue) == TRUE
MutexAvailable_IgnoresOwner(owner, queue) == queue = <<>>

\* cache_clone.lock(): the guard is granted at once only when nobody holds the
\* mutex and nobody queues for it; otherwise the caller queues.
MutexAvailable(owner, queue) == owner = NoTask /\ queue = <<>>

\* Faulty variant of the lookup: the key is ignored and any entry is a hit.
CacheGet_AnyKey(map, key) ==
    IF \E k \in Keys : map[k] # NoClient
      THEN map[CHOOSE k \in Keys : map[k] # NoClient]
      ELSE NoClient

\* cache_guard.get_mut(&storage_account_url)
CacheGet(map, key) == map[key]

\* Faulty variant of the match: a hit is treated as a miss.
AfterLookup_AlwaysMiss(existing) == "credential"

\* Faulty variant of the match: a hit leaves with the guard still held.
AfterLookup_KeepsGuard(existing) == IF existing # NoClient THEN "return" ELSE "credential"

\* The match on the lookup: Some(existing_client) leaves the critical section
\* with a clone of the Arc, None runs the construction sequence.
AfterLookup(existing) == IF existing # NoClient THEN "unlock" ELSE "credential"

\* Faulty variants of the insertion: a cache of one slot, and an insertion
\* that is forgotten.
CacheInsert_Evicts(map, key, client) ==
    [k \in Keys |-> IF k = key THEN client ELSE NoClient]
CacheInsert_Forgotten(map, key, client) == map

\* Faulty variant of the insertion: the entry goes under a fixed key.
CacheInsert_FixedKey(map, key, client) == [map EXCEPT ![1] = client]

\* cache_guard.insert(storage_account_url, Arc::clone(&data_lake_client_arc))
CacheInsert(map, key, client) == [map EXCEPT ![key] = client]

\* Variant of the result in which new itself asks for a token and reports the
\* failure to get one.
NewResult_AcquiresToken(client) == IF credential_ok THEN "Ok" ELSE "Err"

\* The value of the async block: Ok(Self { client }) whatever was built; new
\* holds no `?`, no Err(..) and no unwrap.
NewResult(client) == "Ok"

\* Faulty variant of the Once: whoever does not see it complete initialises.
OnceNeedsInit_Racy(state) == state # "complete"

\* The Once of the lazy_static: the initialiser runs for the caller that finds
\* it incomplete; a caller that finds it running waits.
OnceNeedsInit(state) == state = "incomplete"

\* Faulty variant of the release: the first waiter leaves the queue but is
\* never given the mutex.
NextOwner_LostWakeup(queue) == NoTask

\* Dropping the guard passes the mutex to the first waiter, if any.
NextOwner(queue) == IF queue = <<>> THEN NoTask ELSE Head(queue)

\* Faulty variant of the cancellation: the waiter stays in the queue.
WaitersAfterCancel_NotRemoved(queue, t) == queue

\* Dropping a future that waits in lock().await takes it out of the queue.
WaitersAfterCancel(queue, t) == SelectSeq(queue, LAMBDA x : x # t)

\* Faulty variant of Arc::clone: a pointer is copied and the count is not raised.
StrongAfterClone_NotCounted(n) == n

\* Arc::clone and the drop of an Arc.
StrongAfterClone(n) == n + 1
StrongAfterDrop(n) == n - 1

\* Faulty variant of Clone for the backend: the client itself is copied.
ClientsAfterClone_Deep(cs, c) == Append(cs, cs[c])

\* #[derive(Clone)] on AzureStorageBackend clones the Arc: no client is built.
ClientsAfterClone(cs, c) == cs

\* The first task to take the mutex for an account is remembered.
FirstLockerAfter(fl, k, t) == IF fl[k] = NoTask THEN [fl EXCEPT ![k] = t] ELSE fl

\* Number of entries of the HashMap.
CacheSize(map) == Cardinality({k \in Keys : map[k] # NoClient})

\* Clients constructed for one account.
ClientsOf(k) == {i \in 1..Len(clients) : clients[i] = k}

(***************************************************************************)
(* Initial state: the lazy_static has not been initialised, no test has    *)
(* started, the remote account is empty. The map and the mutex exist only  *)
(* once the initialiser has run; until then nothing reads cache,           *)
(* mutex_owner or waiters.                                                 *)
(***************************************************************************)
Init ==
    /\ pc = [t \in Tasks |-> "idle"]
    /\ op = [t \in Tasks |-> 0]
    /\ account = [t \in Tasks |-> NoKey]
    /\ mutex_owner = NoTask
    /\ waiters = <<>>
    /\ cache = [k \in Keys |-> NoClient]
    /\ clients = <<>>
    /\ credentials = <<>>
    /\ data_lake_client = [t \in Tasks |-> NoClient]
    /\ backend = [t \in Tasks |-> NoClient]
    /\ returned = [t \in Tasks |-> NoClient]
    /\ result = [t \in Tasks |-> "none"]
    /\ work = [t \in Tasks |-> 0]
    /\ warm = [t \in Tasks |-> FALSE]
    /\ first = [k \in Keys |-> NoClient]
    /\ readers = [c \in ClientIds |-> {}]
    /\ writer = [c \in ClientIds |-> NoTask]
    /\ containers = {}
    /\ files = {}
    /\ failed_op = [t \in Tasks |-> 0]
    /\ credential_ok \in BOOLEAN
    /\ once = "incomplete"
    /\ inits = 0
    /\ first_locker = [k \in Keys |-> NoTask]
    /\ strong = [c \in ClientIds |-> 0]
    /\ clones = [t \in Tasks |-> <<>>]

(***************************************************************************)
(* AzureStorageBackend::new, one action per step of the future.            *)
(***************************************************************************)

\* Lines 29-33: the call; the account string is copied and the cache Arc cloned.
\* When the lazy_static is not yet initialised the dereference is a step of its own.
Start(t, k) ==
    /\ pc[t] = "idle"
    /\ account' = [account EXCEPT ![t] = k]
    /\ warm' = [warm EXCEPT ![t] = first[k] # NoClient]
    /\ pc' = [pc EXCEPT ![t] = IF once = "complete" THEN "lock" ELSE "deref"]
    /\ UNCHANGED <<op, mutex_owner, waiters, cache, clients, credentials,
                   data_lake_client, backend, returned, result, work, first,
                   readers, writer, containers, files, failed_op, credential_ok>>
    /\ UNCHANGED <<once, inits, first_locker, strong, clones>>

\* Line 33, first dereference of AZ_STORAGE_BACKEND_CACHE: the caller that
\* finds the Once incomplete runs the initialiser, one that finds it running
\* waits for it, one that finds it complete goes on.
Deref(t) ==
    /\ pc[t] = "deref"
    /\ IF OnceNeedsInit(once)
         THEN /\ once' = "running"
              /\ pc' = [pc EXCEPT ![t] = "init"]
         ELSE /\ once = "complete"
              /\ pc' = [pc EXCEPT ![t] = "lock"]
              /\ UNCHANGED once
    /\ UNCHANGED <<op, account, mutex_owner, waiters, cache, clients, credentials,
                   data_lake_client, backend, returned, result, work, warm, first,
                   readers, writer, containers, files, failed_op, credential_ok,
                   inits, first_locker, strong, clones>>

\* Line 15, the initialiser: Arc::new(Mutex::new(HashMap::new())).
InitCache(t) ==
    /\ pc[t] = "init"
    /\ cache' = [k \in Keys |-> NoClient]
    /\ mutex_owner' = NoTask
    /\ waiters' = <<>>
    /\ inits' = inits + 1
    /\ once' = "complete"
    /\ pc' = [pc EXCEPT ![t] = "lock"]
    /\ UNCHANGED <<op, account, clients, credentials, data_lake_client, backend,
                   returned, result, work, warm, first, readers, writer,
                   containers, files, failed_op, credential_ok, first_locker,
                   strong, clones>>

\* Line 37: cache_clone.lock().await, first poll.
Lock(t) ==
    /\ pc[t] = "lock"
    /\ IF MutexAvailable(mutex_owner, waiters)
         THEN /\ mutex_owner' = t
              /\ first_locker' = FirstLockerAfter(first_locker, account[t], t)
              /\ pc' = [pc EXCEPT ![t] = "lookup"]
              /\ UNCHANGED waiters
         ELSE /\ waiters' = Append(waiters, t)
              /\ pc' = [pc EXCEPT ![t] = "waiting"]
              /\ UNCHANGED <<mutex_owner, first_locker>>
    /\ UNCHANGED <<op, account, cache, clients, credentials, data_lake_client,
                   backend, returned, result, work, warm, first, readers, writer,
                   containers, files, failed_op, credential_ok>>
    /\ UNCHANGED <<once, inits, strong, clones>>

\* Lines 39-44: the lookup under the guard.
Lookup(t) ==
    /\ pc[t] = "lookup"
    /\ LET existing == CacheGet(cache, account[t]) IN
         /\ pc' = [pc EXCEPT ![t] = AfterLookup(existing)]
         /\ data_lake_client' = [data_lake_client EXCEPT ![t] =
                IF AfterLookup(existing) = "unlock" THEN existing ELSE NoClient]
    /\ UNCHANGED <<op, account, mutex_owner, waiters, cache, clients, credentials,
                   backend, returned, result, work, warm, first, readers, writer,
                   containers, files, failed_op, credential_ok>>
    /\ strong' = IF AfterLookup(CacheGet(cache, account[t])) = "credential"
                    THEN strong
                    ELSE [strong EXCEPT ![CacheGet(cache, account[t])] = StrongAfterClone(@)]
    /\ UNCHANGED <<once, inits, first_locker, clones>>

\* Lines 46-48: DefaultAzureCredentialBuilder::default().build(), wrapped in
\* AutoRefreshingTokenCredential and StorageCredentials. No token is requested.
BuildCredential(t) ==
    /\ pc[t] = "credential"
    /\ credentials' = Append(credentials, account[t])
    /\ work' = [work EXCEPT ![t] = @ + 1]
    /\ pc' = [pc EXCEPT ![t] = "factory"]
    /\ UNCHANGED <<op, account, mutex_owner, waiters, cache, clients,
                   data_lake_client, backend, returned, result, warm, first,
                   readers, writer, containers, files, failed_op, credential_ok>>
    /\ UNCHANGED <<once, inits, first_locker, strong, clones>>

\* Line 49: DataLakeClient::new(storage_account_url.clone(), storage_credentials)
ClientNew(t) ==
    /\ pc[t] = "factory"
    /\ clients' = Append(clients, account[t])
    /\ data_lake_client' = [data_lake_client EXCEPT ![t] = Len(clients) + 1]
    /\ work' = [work EXCEPT ![t] = @ + 1]
    /\ pc' = [pc EXCEPT ![t] = "insert"]
    /\ UNCHANGED <<op, account, mutex_owner, waiters, cache, credentials,
                   backend, returned, result, warm, first,
                   readers, writer, containers, files, failed_op, credential_ok>>
    /\ UNCHANGED <<once, inits, first_locker, strong, clones>>

\* Lines 51-53: the client just built goes into an Arc<RwLock<..>> and into the map.
Insert(t) ==
    /\ pc[t] = "insert"
    /\ cache' = CacheInsert(cache, account[t], data_lake_client[t])
    /\ pc' = [pc EXCEPT ![t] = "unlock"]
    /\ UNCHANGED <<op, account, mutex_owner, waiters, clients, credentials,
                   data_lake_client, backend, returned, result, work, warm, first, readers, writer,
                   containers, files, failed_op, credential_ok>>
    /\ strong' = [strong EXCEPT ![data_lake_client[t]] = StrongAfterClone(1)]
    /\ UNCHANGED <<once, inits, first_locker, clones>>

\* Line 56: cache_guard goes out of scope; the mutex passes to the first waiter.
Unlock(t) ==
    /\ pc[t] = "unlock"
    /\ LET next == NextOwner(waiters) IN
         /\ mutex_owner' = next
         /\ waiters' = IF waiters = <<>> THEN waiters ELSE Tail(waiters)
         /\ IF next = NoTask
              THEN /\ pc' = [pc EXCEPT ![t] = "return"]
                   /\ UNCHANGED first_locker
              ELSE /\ pc' = [pc EXCEPT ![t] = "return",
                                        ![next] = IF @ = "waiting" THEN "lookup" ELSE @]
                   /\ first_locker' = FirstLockerAfter(first_locker, account[next], next)
    /\ UNCHANGED <<op, account, cache, clients, credentials, data_lake_client,
                   backend, returned, result, work, warm, first, readers, writer,
                   containers, files, failed_op, credential_ok>>
    /\ UNCHANGED <<once, inits, strong, clones>>

\* Lines 58-60 and the caller's `.await?`: the test receives the backend.
Return(t) ==
    /\ pc[t] = "return"
    /\ result' = [result EXCEPT ![t] = NewResult(data_lake_client[t])]
    /\ IF NewResult(data_lake_client[t]) = "Ok"
         THEN /\ backend' = [backend EXCEPT ![t] = data_lake_client[t]]
              /\ returned' = [returned EXCEPT ![t] = data_lake_client[t]]
              /\ first' = [first EXCEPT ![account[t]] =
                              IF @ = NoClient THEN data_lake_client[t] ELSE @]
              /\ op' = [op EXCEPT ![t] = 1]
              /\ pc' = [pc EXCEPT ![t] = "read"]
         ELSE /\ pc' = [pc EXCEPT ![t] = "failed"]
              /\ UNCHANGED <<backend, returned, first, op>>
    /\ data_lake_client' = [data_lake_client EXCEPT ![t] = NoClient]
    /\ UNCHANGED <<account, mutex_owner, waiters, cache, clients, credentials,
                   work, warm, readers, writer, containers, files, failed_op,
                   credential_ok>>
    /\ UNCHANGED <<once, inits, first_locker, strong, clones>>

(***************************************************************************)
(* The test functions: names, the four helpers and the remote service.     *)
(***************************************************************************)

\* Faulty variant of the names: every test uses the same container name.
ContainerName_Shared(t) == 1

\* generate_unique_names: a fresh UUID in each name, so no two tests share one.
ContainerName(t) == t
FileName(t) == t

\* Faulty variant of the helpers: exclusive access where shared is meant.
AccessMode_Write == "write"

\* backend.client.read(): every helper asks for shared access.
AccessMode == "read"

\* tokio's RwLock: shared access is granted unless a writer holds the lock,
\* exclusive access only when nobody holds it.
RwLockGrants(mode, rs, w) ==
    IF mode = "read" THEN w = NoTask ELSE w = NoTask /\ rs = {}

\* What the storage service answers to the request of helper o on container c
\* and file f of account a.
ServiceAccepts(o, a, c, f) ==
    CASE o = "create_container" -> <<a, c>> \notin containers
      [] o = "create_file"      -> <<a, c>> \in containers
      [] o = "delete_file"      -> <<a, c, f>> \in files
      [] o = "delete_container" -> <<a, c>> \in containers

\* `file_system_client.create().await?` and its three siblings: the request
\* first needs a token from the credential built in new, then the service's answer.
RequestOutcome(o, a, c, f) ==
    IF ~credential_ok THEN "AuthenticationError"
    ELSE IF ServiceAccepts(o, a, c, f) THEN "Ok"
    ELSE "ServiceError"

ContainersAfter(o, a, c) ==
    CASE o = "create_container" -> containers \cup {<<a, c>>}
      [] o = "delete_container" -> containers \ {<<a, c>>}
      [] OTHER                  -> containers

FilesAfter(o, a, c, f) ==
    CASE o = "create_file"      -> files \cup {<<a, c, f>>}
      [] o = "delete_file"      -> files \ {<<a, c, f>>}
      [] o = "delete_container" -> {x \in files : <<x[1], x[2]>> # <<a, c>>}
      [] OTHER                  -> files

\* Faulty variant of the release: the guard is leaked.
ReadersAfterRelease_Leaked(t, c) == readers

\* The guard of task t on client c goes out of scope.
ReadersAfterRelease(t, c) == [readers EXCEPT ![c] = @ \ {t}]
WriterAfterRelease(t, c) == [writer EXCEPT ![c] = IF @ = t THEN NoTask ELSE @]

\* First line of each helper: backend.client.read().await
Acquire(t) ==
    /\ pc[t] = "read"
    /\ LET c == backend[t] IN
         /\ RwLockGrants(AccessMode, readers[c], writer[c])
         /\ IF AccessMode = "read"
              THEN /\ readers' = [readers EXCEPT ![c] = @ \cup {t}]
                   /\ UNCHANGED writer
              ELSE /\ writer' = [writer EXCEPT ![c] = t]
                   /\ UNCHANGED readers
    /\ pc' = [pc EXCEPT ![t] = "request"]
    /\ UNCHANGED <<op, account, mutex_owner, waiters, cache, clients, credentials,
                   data_lake_client, backend, returned, result, work, warm, first,
                   containers, files, failed_op, credential_ok>>
    /\ UNCHANGED <<once, inits, first_locker, strong, clones>>

\* The request of the helper. On an error `?` leaves the helper (its guard is
\* dropped) and then the test function (its backend is dropped).
Request(t) ==
    /\ pc[t] = "request"
    /\ LET o == Ops[op[t]]
           a == clients[backend[t]]
           c == ContainerName(t)
           f == FileName(t)
       IN IF RequestOutcome(o, a, c, f) = "Ok"
            THEN /\ containers' = ContainersAfter(o, a, c)
                 /\ files' = FilesAfter(o, a, c, f)
                 /\ pc' = [pc EXCEPT ![t] = "drop"]
                 /\ UNCHANGED <<readers, writer, backend, failed_op, strong>>
            ELSE /\ failed_op' = [failed_op EXCEPT ![t] = op[t]]
                 /\ readers' = ReadersAfterRelease(t, backend[t])
                 /\ writer' = WriterAfterRelease(t, backend[t])
                 /\ backend' = [backend EXCEPT ![t] = NoClient]
                 /\ strong' = [strong EXCEPT ![backend[t]] = StrongAfterDrop(@)]
                 /\ pc' = [pc EXCEPT ![t] = "failed"]
                 /\ UNCHANGED <<containers, files>>
    /\ UNCHANGED <<op, account, mutex_owner, waiters, cache, clients, credentials,
                   data_lake_client, returned, result, work, warm, first,
                   credential_ok>>
    /\ UNCHANGED <<once, inits, first_locker, clones>>

\* drop(read_lock); Ok(()) -- and after the fourth helper the test function
\* ends and its backend is dropped.
Drop(t) ==
    /\ pc[t] = "drop"
    /\ readers' = ReadersAfterRelease(t, backend[t])
    /\ writer' = WriterAfterRelease(t, backend[t])
    /\ IF op[t] < Len(Ops)
         THEN /\ op' = [op EXCEPT ![t] = @ + 1]
              /\ pc' = [pc EXCEPT ![t] = "read"]
              /\ UNCHANGED <<backend, strong>>
         ELSE /\ pc' = [pc EXCEPT ![t] = "done"]
              /\ backend' = [backend EXCEPT ![t] = NoClient]
              /\ strong' = [strong EXCEPT ![backend[t]] = StrongAfterDrop(@)]
              /\ UNCHANGED op
    /\ UNCHANGED <<account, mutex_owner, waiters, cache, clients, credentials,
                   data_lake_client, returned, result, work, warm, first,
                   containers, files, failed_op, credential_ok>>
    /\ UNCHANGED <<once, inits, first_locker, clones>>

TaskStep(t) ==
    \/ \E k \in Keys : Start(t, k)
    \/ Deref(t)
    \/ InitCache(t)
    \/ Lock(t)
    \/ Lookup(t)
    \/ BuildCredential(t)
    \/ ClientNew(t)
    \/ Insert(t)
    \/ Unlock(t)
    \/ Return(t)
    \/ Acquire(t)
    \/ Request(t)
    \/ Drop(t)

Next == \E t \in Tasks : TaskStep(t)

Spec == Init /\ [][Next]_vars

\* The test harness keeps running: as long as some test function can take a
\* step, one is taken.
FairSpec == Spec /\ WF_vars(Next)

(***************************************************************************)
(* Callers in general. Besides calling new, the owner of the future may    *)
(* drop it while it is suspended (its only suspension point is the         *)
(* lock().await of line 37), and the owner of a backend may clone it       *)
(* (#[derive(Clone)], line 19) and drop the backend and its clones.        *)
(***************************************************************************)

\* The future of new is dropped while it waits for the cache mutex.
Cancel(t) ==
    /\ pc[t] = "waiting"
    /\ waiters' = WaitersAfterCancel(waiters, t)
    /\ pc' = [pc EXCEPT ![t] = "cancelled"]
    /\ UNCHANGED <<op, account, mutex_owner, cache, clients, credentials,
                   data_lake_client, backend, returned, result, work, warm, first,
                   readers, writer, containers, files, failed_op, credential_ok,
                   once, inits, first_locker, strong, clones>>

\* azure_storage_backend.clone()
CloneBackend(t) ==
    /\ pc[t] = "read"
    /\ backend[t] # NoClient
    /\ Len(clones[t]) < MaxClones
    /\ clients' = ClientsAfterClone(clients, backend[t])
    /\ LET target == IF clients' = clients THEN backend[t] ELSE Len(clients') IN
         /\ clones' = [clones EXCEPT ![t] = Append(@, target)]
         /\ strong' = [strong EXCEPT ![target] = StrongAfterClone(@)]
    /\ UNCHANGED <<pc, op, account, mutex_owner, waiters, cache, credentials,
                   data_lake_client, backend, returned, result, work, warm, first,
                   readers, writer, containers, files, failed_op, credential_ok,
                   once, inits, first_locker>>

\* A clone of the backend goes out of scope.
DropClone(t) ==
    /\ clones[t] # <<>>
    /\ clones' = [clones EXCEPT ![t] = Tail(@)]
    /\ strong' = [strong EXCEPT ![Head(clones[t])] = StrongAfterDrop(@)]
    /\ UNCHANGED <<pc, op, account, mutex_owner, waiters, cache, clients,
                   credentials, data_lake_client, backend, returned, result, work,
                   warm, first, readers, writer, containers, files, failed_op,
                   credential_ok, once, inits, first_locker>>

\* The backend that new returned goes out of scope.
DropBackend(t) ==
    /\ pc[t] = "read"
    /\ backend[t] # NoClient
    /\ backend' = [backend EXCEPT ![t] = NoClient]
    /\ strong' = [strong EXCEPT ![backend[t]] = StrongAfterDrop(@)]
    /\ pc' = [pc EXCEPT ![t] = "done"]
    /\ UNCHANGED <<op, account, mutex_owner, waiters, cache, clients, credentials,
                   data_lake_client, returned, result, work, warm, first, readers,
                   writer, containers, files, failed_op, credential_ok, once,
                   inits, first_locker, clones>>

\* The steps of new itself, from the first dereference to the return.
NewStep(t) ==
    \/ Deref(t)
    \/ InitCache(t)
    \/ Lock(t)
    \/ Lookup(t)
    \/ BuildCredential(t)
    \/ ClientNew(t)
    \/ Insert(t)
    \/ Unlock(t)
    \/ Return(t)

ApiNext ==
    \E t \in Tasks :
        \/ \E k \in Keys : Start(t, k)
        \/ NewStep(t)
        \/ Cancel(t)
        \/ CloneBackend(t)
        \/ DropClone(t)
        \/ DropBackend(t)

ApiSpec == Init /\ [][ApiNext]_vars

\* Callers of new alone: each may call it once and may drop its call while it
\* waits for the cache mutex; what is done with the handle afterwards plays no
\* part.
CallNext ==
    \E t \in Tasks :
        \/ \E k \in Keys : Start(t, k)
        \/ NewStep(t)
        \/ Cancel(t)

CallSpec == Init /\ [][CallNext]_vars

\* The cache mutex is granted to its waiters and a call that can take a step
\* of new takes one; whether and when a caller starts or cancels is up to
\* the caller.
FairCallSpec == CallSpec /\ WF_vars(\E t \in Tasks : NewStep(t))

(***************************************************************************)
(* Properties.                                                             *)
(***************************************************************************)

\* The task's call to new has returned to the test.
Returned(t) == result[t] # "none"

\* The task is between acquiring the cache mutex and dropping its guard.
InCriticalSection(t) ==
    pc[t] \in {"lookup", "credential", "factory", "insert", "unlock"}

\* The client instances that the cache or a live handle references for account k.
LiveClients(k) ==
    ({cache[k]} \cup {backend[t] : t \in {u \in Tasks : account[u] = k}}
                \cup {data_lake_client[t] : t \in {u \in Tasks : account[u] = k}})
    \ {NoClient}

\* Credentials built by calls for account k.
CredentialsOf(k) == {i \in 1..Len(credentials) : credentials[i] = k}

\* C1: for each account the construction sequence (credential, client,
\* insertion) runs at most once whatever the interleaving, exactly once as
\* soon as a call for the account has returned, and every call for the account
\* returns a handle on that one client.
C1_SingleConstruction ==
    /\ \A k \in Keys :
         /\ Cardinality(ClientsOf(k)) <= 1
         /\ Cardinality(CredentialsOf(k)) <= 1
    /\ \A t \in Tasks : Returned(t) =>
         /\ ClientsOf(account[t]) = {returned[t]}
         /\ Cardinality(CredentialsOf(account[t])) = 1
         /\ cache[account[t]] = returned[t]

\* Two calls for one account that both began before either had returned have
\* both returned.
C1_Witness ==
    \E t, u \in Tasks :
        /\ t # u /\ account[t] = account[u]
        /\ Returned(t) /\ Returned(u) /\ ~warm[t] /\ ~warm[u]
        /\ returned[t] = returned[u] /\ returned[t] # NoClient

\* C2: in every state, for every account at most one client instance is
\* referenced by the cache and the live handles together, every live handle of
\* the account references the instance stored in the cache under it, and that
\* instance was built for that account.
C2_OneLiveInstance ==
    /\ \A k \in Keys :
         /\ Cardinality(LiveClients(k)) <= 1
         /\ cache[k] # NoClient => clients[cache[k]] = k
    /\ \A t \in Tasks : backend[t] # NoClient => backend[t] = cache[account[t]]

\* Two live handles for one account.
C2_Witness ==
    \E t, u \in Tasks :
        /\ t # u /\ account[t] = account[u]
        /\ backend[t] # NoClient /\ backend[u] = backend[t]

\* C3: handles returned for different accounts never reference the same
\* client, each references a client built for its own account, and when no
\* call is in progress there are exactly as many clients as accounts asked for.
C3_KeyIsolation ==
    /\ \A t, u \in Tasks :
         (Returned(t) /\ Returned(u) /\ account[t] # account[u])
            => returned[t] # returned[u]
    /\ \A t \in Tasks : Returned(t) => clients[returned[t]] = account[t]
    /\ (\A t \in Tasks : Returned(t))
         => Len(clients) = Cardinality({account[t] : t \in Tasks})

\* Two calls for different accounts have returned.
C3_Witness ==
    \E t, u \in Tasks :
        /\ account[t] # account[u]
        /\ Returned(t) /\ Returned(u)
        /\ returned[t] # returned[u]
        /\ Len(clients) = 2

\* C4: a call that begins after a call for the same account has returned makes
\* no credential and no factory invocation, and the handle it returns
\* references the client of the first handle returned for the account.
C4_WarmHit ==
    \A t \in Tasks : warm[t] =>
        /\ work[t] = 0
        /\ Returned(t) => returned[t] = first[account[t]]

\* A call that began after another one for the account had returned has returned.
C4_Witness ==
    \E t \in Tasks : warm[t] /\ Returned(t) /\ returned[t] # NoClient

\* C5: no step removes or replaces an entry of the cache.
C5_CacheMonotonic ==
    [][\A k \in Keys : cache[k] # NoClient => cache'[k] = cache[k]]_vars

\* An entry was inserted while another one existed, and calls went on after it.
C5_Witness ==
    /\ \A k \in Keys : cache[k] # NoClient
    /\ \E t \in Tasks : pc[t] = "done"

\* The task's call to new has gone through the construction sequence.
Constructed(t) == work[t] > 0 /\ ~InCriticalSection(t)

C8_SharedReads ==
    /\ \A c \in ClientIds :
         /\ writer[c] = NoTask
         /\ ~(writer[c] # NoTask /\ readers[c] # {})
    /\ \A t \in Tasks : pc[t] = "read" =>
         RwLockGrants("read", readers[backend[t]], writer[backend[t]])
    /\ \A t \in Tasks : pc[t] \in {"request", "drop"} => t \in readers[backend[t]]

\* Two tasks hold shared access to one client at the same time.
C8_Witness ==
    \E c \in ClientIds : Cardinality(readers[c]) >= 2

\* Every test function has ended.
AllEnded == \A t \in Tasks : pc[t] \in {"done", "failed"}

C10_MutualExclusion ==
    /\ [](/\ \A t \in Tasks : InCriticalSection(t) => mutex_owner = t
          /\ Cardinality({t \in Tasks : InCriticalSection(t)}) <= 1
          /\ mutex_owner # NoTask => InCriticalSection(mutex_owner))
    /\ [][cache' # cache =>
            /\ mutex_owner # NoTask /\ mutex_owner' = mutex_owner
            /\ pc[mutex_owner] = "insert"
            /\ \A t \in Tasks \ {mutex_owner} : pc'[t] = pc[t]]_vars

\* One task is constructing a client while a task for another account waits
\* for the mutex.
C10_Witness ==
    \E t, u \in Tasks :
        /\ pc[t] = "factory" /\ pc[u] = "waiting"
        /\ account[t] # account[u]

\* The task is inside one of the four helpers.
InHelper(t) == pc[t] \in {"request", "drop"}

\* The task holds some access to client c.
HoldsClient(t, c) == t \in readers[c] \/ writer[c] = t

\* The task is queued on the cache mutex.
Queued(t) == \E i \in 1..Len(waiters) : waiters[i] = t

\* C11: a task that asks for or holds access to a client has released the
\* cache mutex and does not queue for it; the holder of the cache mutex holds
\* no access to any client; no task asks for a lock it already holds or queues
\* twice; and as long as a test function has not ended some step is possible.
C11_LockOrder ==
    /\ \A t \in Tasks :
         /\ (pc[t] = "read" \/ InHelper(t)) => (mutex_owner # t /\ ~Queued(t))
         /\ mutex_owner = t => \A c \in ClientIds : ~HoldsClient(t, c)
         /\ pc[t] = "read" => ~HoldsClient(t, backend[t])
         /\ pc[t] \in {"lock", "waiting"} => mutex_owner # t
         /\ Cardinality({i \in 1..Len(waiters) : waiters[i] = t}) <= 1
    /\ AllEnded \/ ENABLED Next

\* One task holds the cache mutex while another holds access to a client.
C11_Witness ==
    \E t, u \in Tasks :
        /\ mutex_owner = t /\ pc[t] = "lookup"
        /\ InHelper(u) /\ HoldsClient(u, backend[u])

\* C14: on every client the read guards held are exactly those of the tasks
\* inside a helper on that client, and nobody holds the write guard; so a
\* helper that has ended, with Ok or with an error, has released its access,
\* and a client on which no helper runs has no reader and no writer.
C14_ScopedAccess ==
    /\ \A c \in ClientIds :
         /\ readers[c] = {t \in Tasks : InHelper(t) /\ backend[t] = c}
         /\ writer[c] = NoTask
    /\ \A t \in Tasks : pc[t] \in {"read", "done", "failed"} =>
         \A c \in ClientIds : ~HoldsClient(t, c)

\* A helper has ended with an error and no access to any client is held.
C14_Witness ==
    /\ \E t \in Tasks : pc[t] = "failed" /\ failed_op[t] # 0
    /\ \A c \in ClientIds : readers[c] = {} /\ writer[c] = NoTask

\* C15: a lookup that finds the account present goes on with the cached client
\* and without the construction sequence, and the map changes only in the
\* insertion of a call that found its account absent and built a client: that
\* step adds the entry for that account and leaves every other entry as it was.
C15_Frame ==
    /\ [][\A t \in Tasks :
            (pc[t] = "lookup" /\ pc'[t] # "lookup" /\ cache[account[t]] # NoClient)
               => /\ pc'[t] = "unlock"
                  /\ data_lake_client'[t] = cache[account[t]]
                  /\ cache' = cache]_vars
    /\ [][cache' # cache =>
            \E t \in Tasks :
               /\ pc[t] = "insert" /\ pc'[t] = "unlock" /\ work[t] = 2
               /\ cache[account[t]] = NoClient
               /\ data_lake_client[t] # NoClient
               /\ cache' = [cache EXCEPT ![account[t]] = data_lake_client[t]]]_vars

\* A call that found its account absent has inserted its entry beside the
\* entry of another account.
C15_Witness ==
    \E t \in Tasks :
        /\ pc[t] = "unlock" /\ work[t] = 2
        /\ CacheSize(cache) = 2

\* C16 as stated: in every state as many credentials have been built as
\* clients, and as many clients as the cache has entries.
C16_CountsAlwaysEqual ==
    /\ Len(credentials) = Len(clients)
    /\ Len(clients) = CacheSize(cache)

\* C16, amended: the three counts are equal whenever no call is between the
\* building of its credential and its insertion, in particular whenever the
\* cache mutex is free; in between the entries are at most the clients, the
\* clients at most the credentials and the credentials at most one more than
\* the entries. A call that constructs makes one credential and one factory
\* invocation and returns the client it built.
C16_Accounting ==
    /\ CacheSize(cache) <= Len(clients)
    /\ Len(clients) <= Len(credentials)
    /\ Len(credentials) <= CacheSize(cache) + 1
    /\ ((\A t \in Tasks : pc[t] \notin {"factory", "insert"}) \/ mutex_owner = NoTask)
          => /\ Len(credentials) = Len(clients)
             /\ Len(clients) = CacheSize(cache)
    /\ \A t \in Tasks : (Returned(t) /\ work[t] > 0) =>
          /\ work[t] = 2
          /\ clients[returned[t]] = account[t]
          /\ cache[account[t]] = returned[t]

\* One call on the empty cache has returned: one credential, one client, one entry.
C16_Witness ==
    /\ Len(credentials) = 1 /\ Len(clients) = 1 /\ CacheSize(cache) = 1
    /\ mutex_owner = NoTask
    /\ \E t \in Tasks : Returned(t) /\ work[t] = 2 /\ returned[t] = 1

\* C12: of the calls for one account only the one that took the cache mutex
\* first constructs; once it has released the mutex the entry is in the map;
\* and every other call for the account is inside the critical section only
\* with the entry present: it finds it and builds nothing.
C12_RaceOrder ==
    /\ \A t \in Tasks : work[t] > 0 => first_locker[account[t]] = t
    /\ \A k \in Keys :
         /\ Cardinality({t \in Tasks : account[t] = k /\ work[t] > 0}) <= 1
         /\ (first_locker[k] # NoTask /\ ~InCriticalSection(first_locker[k]))
               => (cache[k] # NoClient /\ clients[cache[k]] = k)
    /\ \A t \in Tasks :
         (InCriticalSection(t) /\ first_locker[account[t]] # t)
            => /\ cache[account[t]] # NoClient
               /\ pc[t] \in {"lookup", "unlock"}
               /\ work[t] = 0
               /\ pc[t] = "unlock" => data_lake_client[t] = cache[account[t]]

\* A call that began before the first call for its account had returned has
\* found the entry which that first call inserted.
C12_Witness ==
    \E t, u \in Tasks :
        /\ t # u /\ account[t] # NoKey /\ account[t] = account[u]
        /\ first_locker[account[t]] = t /\ work[t] = 2
        /\ pc[u] = "unlock" /\ ~warm[u] /\ work[u] = 0

HandleCount(c) ==
    Cardinality({t \in Tasks : backend[t] = c})
    + Cardinality({t \in Tasks : pc[t] \in {"unlock", "return"} /\ data_lake_client[t] = c})
    + Cardinality({x \in Tasks \X (1..(MaxClones + 1)) :
                      x[2] <= Len(clones[x[1]]) /\ clones[x[1]][x[2]] = c})

\* C17: every client that has been put into its Arc is referenced by exactly
\* one entry of the cache, and its strong count is one for that entry plus one
\* for every handle and clone; the count of a client never falls to zero again,
\* whatever handles are dropped.
C17_ClientLifetime ==
    /\ [](\A c \in 1..Len(clients) :
             \/ \E t \in Tasks : pc[t] = "insert" /\ data_lake_client[t] = c
             \/ /\ Cardinality({k \in Keys : cache[k] = c}) = 1
                /\ strong[c] = 1 + HandleCount(c))
    /\ [][\A c \in ClientIds : strong[c] >= 1 => strong'[c] >= 1]_vars

\* The backend has been dropped while a clone of it still references the client.
C17_Witness ==
    \E t \in Tasks :
        /\ pc[t] = "done" /\ backend[t] = NoClient
        /\ clones[t] # <<>>
        /\ strong[clones[t][1]] = 2

\* C18: the step that clones a backend builds no client and no credential and
\* leaves the map, the cache mutex and its queue as they are, and the clone
\* references the client of the backend it was cloned from; so every clone a
\* task holds references the client of the handle new returned to it.
C18_CloneFrame ==
    /\ [][\A t \in Tasks : Len(clones'[t]) > Len(clones[t]) =>
            /\ clients' = clients /\ credentials' = credentials /\ work' = work
            /\ cache' = cache /\ mutex_owner' = mutex_owner /\ waiters' = waiters
            /\ clones'[t][Len(clones'[t])] = backend[t]]_vars
    /\ [](\A t \in Tasks : \A i \in 1..Len(clones[t]) : clones[t][i] = returned[t])

\* A task holds a backend and a clone of it while another call holds the cache mutex.
C18_Witness ==
    \E t \in Tasks :
        /\ backend[t] # NoClient
        /\ clones[t] # <<>> /\ clones[t][1] = backend[t]
        /\ mutex_owner # NoTask /\ mutex_owner # t

\* C19: before the first call the cache has not been initialised; the
\* initialiser runs at most once, for one caller at a time, and makes an empty
\* map; a call is past its first dereference only when the initialisation is
\* complete; and once complete the cache is never initialised again.
C19_LazyInit ==
    /\ [](/\ inits <= 1
          /\ (once = "complete") <=> (inits = 1)
          /\ (\A t \in Tasks : pc[t] = "idle") => once = "incomplete"
          /\ Cardinality({t \in Tasks : pc[t] = "init"}) <= 1
          /\ (once = "running") <=> (\E t \in Tasks : pc[t] = "init")
          /\ once # "complete" => (CacheSize(cache) = 0 /\ mutex_owner = NoTask)
          /\ \A t \in Tasks : pc[t] \notin {"idle", "deref", "init"} => once = "complete")
    /\ [][once = "complete" => (once' = "complete" /\ inits' = inits)]_vars
    /\ [][inits' # inits => (CacheSize(cache') = 0 /\ mutex_owner' = NoTask)]_vars

\* Two first calls at once: one runs the initialiser, the other waits at its
\* dereference.
C19_Witness ==
    \E t, u \in Tasks : pc[t] = "init" /\ pc[u] = "deref"

\* The task is inside its call to new.
InCall(t) ==
    pc[t] \in {"deref", "init", "lock", "waiting", "lookup", "credential",
               "factory", "insert", "unlock", "return"}

\* C20: with the mutex handed on in arrival order and every step of new
\* eventually taken, every call to new returns unless it is dropped while
\* waiting, and the cache mutex, once held, becomes free again.
C20_Liveness ==
    /\ \A t \in Tasks : InCall(t) ~> (result[t] = "Ok" \/ pc[t] = "cancelled")
    /\ (mutex_owner # NoTask) ~> (mutex_owner = NoTask)

\* Calls for different accounts have all returned, one of them after waiting
\* for the mutex, and the mutex is free.
C20_Witness ==
    /\ \A t \in Tasks : result[t] = "Ok"
    /\ \E t, u \in Tasks : account[t] # account[u] /\ first_locker[account[t]] = t
    /\ mutex_owner = NoTask

====
